---- MODULE Spec2Model ----
(***************************************************************************)
(* SoundTime-Listing: the node directory of src/db.js.                     *)
(*                                                                         *)
(* The state is the SQLite table `nodes`, the wall clock, the express      *)
(* handlers of POST /api/announce that are suspended in an await, and the  *)
(* runHealthChecks cycles that are suspended in an await.  JavaScript runs *)
(* each stretch of code between two awaits without interruption, so every  *)
(* action below is one such stretch.                                       *)
(*                                                                         *)
(* Time is counted in whole minutes.  A domain string is a sequence of     *)
(* chunks ("https://", "a.example", "/"): the two regular expressions of   *)
(* cleanDomain only ever look at a leading scheme and a trailing slash.    *)
(* A JavaScript value is a pair <<typeof, value>>.                         *)
(***************************************************************************)
EXTENDS Integers, Sequences, FiniteSets, TLC

VARIABLES
    nodes,      \* the rows of table nodes
    now,        \* the wall clock, in minutes
    generated,  \* how many (id, token) pairs generateId/generateToken made
    req,        \* req[r]: the announce handler running for connection r
    sweep,      \* sweep[s]: the runHealthChecks call s
    res,        \* the HTTP response sent by the last step, if any
    log,        \* the [health] lines logged by the last step
    probe       \* a call of checkNodeHealth or fetchNodeInfo, looked at closely

vars == <<nodes, now, generated, req, sweep, res, log, probe>>

---------------------------------------------------------------------------
(* Bounds of the model *)

MaxReqs == 2
MaxSweeps == 1
MaxTicks == 1
MaxGenerated == 2
MaxOverlap == 2
MaxIntervals == 2

---------------------------------------------------------------------------
(* Program constants *)

HEALTH_CHECK_INTERVAL_MS == 5 * 60 * 1000
REMOVAL_THRESHOLD_HOURS == 48
MinutesPerHour == 60
MsPerMinute == 60 * 1000

\* The period of setInterval(runHealthChecks, ...), in minutes
HealthCheckInterval == HEALTH_CHECK_INTERVAL_MS \div MsPerMinute

RemovalThreshold == REMOVAL_THRESHOLD_HOURS * MinutesPerHour

\* The clock moves in steps of 47h59m and of 48h0m.
TickSteps == {RemovalThreshold - 1, RemovalThreshold}
MaxTime == MaxTicks * RemovalThreshold

---------------------------------------------------------------------------
(* JavaScript values and operators *)

Undefined == <<"undefined", 0>>
Null == <<"null", 0>>
Num(n) == <<"number", n>>
Str(s) == <<"string", s>>
Bool(b) == <<"boolean", b>>

\* ToBoolean
Truthy(v) ==
    CASE v[1] = "number" -> v[2] # 0
      [] v[1] = "string" -> v[2] # ""
      [] v[1] = "boolean" -> v[2]
      [] OTHER -> FALSE

Nullish(v) == v[1] \in {"undefined", "null"}

\* a || b
Or(a, b) == IF Truthy(a) THEN a ELSE b

\* a ?? b
Coalesce(a, b) == IF Nullish(a) THEN b ELSE a

\* c ? 1 : 0
OneOrZero(c) == IF Truthy(c) THEN Num(1) ELSE Num(0)

\* better-sqlite3 binds numbers, strings, bigints, buffers and null; any
\* other parameter makes run() throw a TypeError.
Bindable(v) == v[1] \in {"number", "string", "null"}

\* SQL COALESCE(?, column)
SqlCoalesce(x, col) == IF x = Null THEN col ELSE x

---------------------------------------------------------------------------
(* Domain strings *)

Schemes == {"http://", "https://"}

\* .replace(/^https?:\/\//, "")
StripScheme(d) == IF Len(d) > 0 /\ d[1] \in Schemes THEN Tail(d) ELSE d

\* .replace(/\/$/, "")
StripSlash(d) == IF Len(d) > 0 /\ d[Len(d)] = "/" THEN SubSeq(d, 1, Len(d) - 1) ELSE d

cleanDomain(domain) == StripSlash(StripScheme(domain))

\* !domain || typeof domain !== "string"
DomainMissing(domain) == domain[1] # "string" \/ domain[2] = <<>>

---------------------------------------------------------------------------
(* nodeinfo *)

InfoFields == {"name", "description", "version", "track_count", "user_count",
               "open_registration", "p2p_enabled", "p2p_node_id"}

\* fetchNodeInfo returned null: info?.f is undefined for every f.
NoInfo == [present |-> FALSE, name |-> Undefined, description |-> Undefined,
           version |-> Undefined, track_count |-> Undefined, user_count |-> Undefined,
           open_registration |-> Undefined, p2p_enabled |-> Undefined,
           p2p_node_id |-> Undefined]

\* A node that reports only its track count.
InfoTracks == [NoInfo EXCEPT !.present = TRUE, !.track_count = Num(10)]

\* A node that reports open_registration as a JSON boolean.
InfoOpen == [NoInfo EXCEPT !.present = TRUE, !.open_registration = Bool(TRUE)]

\* A node that reports every field
InfoFull == [present |-> TRUE, name |-> Str("Alpha"), description |-> Str("Music"),
             version |-> Str("1.0"), track_count |-> Num(10), user_count |-> Num(3),
             open_registration |-> Num(0), p2p_enabled |-> Bool(TRUE),
             p2p_node_id |-> Str("peer")]

\* A node that reports zero counts and p2p switched off
InfoZero == [NoInfo EXCEPT !.present = TRUE, !.track_count = Num(0),
                           !.user_count = Num(0), !.p2p_enabled = Bool(FALSE)]

\* A node that reports a few tracks
InfoFew == [NoInfo EXCEPT !.present = TRUE, !.track_count = Num(3)]

\* The answers of /api/nodeinfo tried
Infos == {NoInfo, InfoOpen}

\* The answers of /api/nodeinfo that the listed nodes gave when they registered
ListInfos == {NoInfo, InfoFew, InfoTracks}

\* The answers of /api/nodeinfo tried where the metadata matter
MergeInfos == {NoInfo, InfoTracks, InfoFull, InfoZero, InfoOpen}

---------------------------------------------------------------------------
(* Table nodes *)

\* datetime('now'): a TEXT timestamp
DateTime(t) == <<"datetime", t>>

\* The values bound to one INSERT or UPDATE
Bound(name, description, version, tracks, users, open, p2p, peer) ==
    [name |-> name, description |-> description, version |-> version,
     track_count |-> tracks, user_count |-> users,
     open_registration |-> open, p2p_enabled |-> p2p, p2p_node_id |-> peer]

\* run() throws unless every parameter can be bound
AllBindable(b) == \A f \in DOMAIN b : Bindable(b[f])

\* INSERT INTO nodes (id, domain, name, ..., token): the columns not named
\* take their defaults.
InsertedRow(id, domain, b, token) ==
    [id |-> id, domain |-> domain,
     name |-> b.name, description |-> b.description, version |-> b.version,
     track_count |-> b.track_count, user_count |-> b.user_count,
     open_registration |-> b.open_registration, p2p_enabled |-> b.p2p_enabled,
     p2p_node_id |-> b.p2p_node_id,
     country |-> Null, token |-> token,
     first_seen |-> now, last_seen |-> now, last_healthy |-> now,
     is_online |-> 1, down_since |-> Null]

\* The table declared without UNIQUE on domain
UniqueViolationNoDomain(row) ==
    \E n \in nodes : n.id = row.id \/ n.token = row.token

\* id TEXT PRIMARY KEY, domain TEXT UNIQUE, token TEXT UNIQUE
UniqueViolation(row) ==
    \E n \in nodes : n.id = row.id \/ n.domain = row.domain \/ n.token = row.token

\* crypto.randomUUID() and crypto.randomBytes(32): the n-th value generated
generateId(n) == n
generateToken(n) == n

\* A request without a token (undefined or "")
NoToken == 0

---------------------------------------------------------------------------
(* checkNodeHealth and fetchNodeInfo *)

ProbeFunctions == {"checkNodeHealth", "fetchNodeInfo"}
ProbeDomains ==
    {<<"a.example">>, <<"localhost">>, <<"localhost", ":3000">>, <<"127.0.0.1">>,
     <<"a.example", "/127.0.0.1">>}

\* domain.startsWith("localhost") || domain.includes("127.0.0.1")
\*     ? ["http"] : ["https", "http"]
Protocols(domain) ==
    IF Len(domain) > 0
         /\ (domain[1] = "localhost" \/ \E i \in 1 .. Len(domain) : domain[i] = "127.0.0.1")
    THEN <<"http">>
    ELSE <<"https", "http">>

\* What res.json() yields: a rejection for a body that is not JSON, or the value
Malformed == <<"malformed", 0>>
StatusOk == <<"object", "ok">>
StatusDown == <<"object", "down">>
JsonBodies == {Malformed, Null, StatusOk, StatusDown}

\* No probe is being looked at
IdleProbe ==
    [pc |-> "idle", function |-> "", domain |-> <<>>, protocols |-> <<>>,
     timeout |-> FALSE, attempts |-> <<>>, result |-> Undefined]

\* return false / return null after the loop
Unreachable(function) == IF function = "checkNodeHealth" THEN Bool(FALSE) ELSE Null

\* One pass of `for (const proto of protocols)` ended without a return: the
\* next protocol is fetched with a new 8 s timer, or the loop is left.  (A
\* timer left armed by a pass aborts a fetch that has settled, which does
\* nothing.)
TryNext(p, outcome) ==
    LET rest == Tail(p.protocols)
        tried == Append(p.attempts, <<Head(p.protocols), outcome>>)
    IN  IF rest = <<>>
        THEN [p EXCEPT !.pc = "done", !.protocols = rest, !.timeout = FALSE,
                       !.attempts = tried, !.result = Unreachable(p.function)]
        ELSE [p EXCEPT !.pc = "fetch", !.protocols = rest, !.timeout = TRUE,
                       !.attempts = tried]

\* return true / return await res.json()
Return(p, result) ==
    [p EXCEPT !.pc = "done", !.timeout = FALSE, !.result = result,
              !.attempts = Append(p.attempts, <<Head(p.protocols), "returned">>)]

\* The call, up to `await fetch(url, {signal})` for the first protocol: the
\* timer is armed
ProbeBegin(function, domain) ==
    /\ probe.pc = "idle"
    /\ probe' = [IdleProbe EXCEPT !.pc = "fetch", !.function = function,
                                  !.domain = domain, !.protocols = Protocols(domain),
                                  !.timeout = TRUE]
    /\ UNCHANGED <<nodes, now, generated, req, sweep, res, log>>

\* The remote sent its status line and headers: fetch resolves,
\* clearTimeout(timeout) runs, and with res.ok the body is awaited
FetchResolves(ok) ==
    /\ probe.pc = "fetch"
    /\ probe' = IF ok
                THEN [probe EXCEPT !.pc = "body", !.timeout = FALSE]
                ELSE TryNext([probe EXCEPT !.timeout = FALSE], "status")
    /\ UNCHANGED <<nodes, now, generated, req, sweep, res, log>>

\* The connection failed: fetch rejects, catch, next protocol
FetchRejects ==
    /\ probe.pc = "fetch"
    /\ probe' = TryNext(probe, "error")
    /\ UNCHANGED <<nodes, now, generated, req, sweep, res, log>>

\* setTimeout(() => controller.abort(), 8000) fires while it is armed: what
\* is pending on the signal rejects, catch, next protocol
Abort ==
    /\ probe.timeout
    /\ probe.pc \in {"fetch", "body"}
    /\ probe' = TryNext(probe, "aborted")
    /\ UNCHANGED <<nodes, now, generated, req, sweep, res, log>>

\* The remote completed the body: res.json() settles
BodyArrives(json) ==
    /\ probe.pc = "body"
    /\ probe' =
          IF probe.function = "checkNodeHealth"
          THEN IF json = StatusOk THEN Return(probe, Bool(TRUE)) ELSE TryNext(probe, "body")
          ELSE IF json = Malformed THEN TryNext(probe, "body") ELSE Return(probe, json)
    /\ UNCHANGED <<nodes, now, generated, req, sweep, res, log>>

\* The caller has the result
ProbeReturn ==
    /\ probe.pc = "done"
    /\ probe' = [IdleProbe EXCEPT !.result = probe.result]
    /\ UNCHANGED <<nodes, now, generated, req, sweep, res, log>>

---------------------------------------------------------------------------
(* POST /api/announce *)

\* The request bodies tried.  Tokens 1..MaxGenerated may have been issued;
\* MaxGenerated + 1 never is.
DomainInputs ==
    { Str(<<"a.example">>), Str(<<"b.example">>),
      Str(<<"https://", "a.example", "/">>), Str(<<"http://", "b.example">>),
      Str(<<>>), Undefined }
TokenInputs == 0 .. (MaxGenerated + 1)

Bodies ==
    [domain : DomainInputs, token : TokenInputs, name : {Undefined},
     description : {Undefined}, version : {Undefined}]

\* Ways of writing one host: with or without a scheme in front of it and with
\* up to MaxSlashes slashes behind it
MaxSlashes == 2

Repeat(chunk, k) == [i \in 1 .. k |-> chunk]

Spellings(host) ==
    { Repeat(scheme, i) \o <<host>> \o Repeat("/", j) :
        scheme \in Schemes, i \in 0 .. 1, j \in 0 .. MaxSlashes }

\* The request bodies tried where the spelling of the domain matters
SpellingBodies ==
    [domain : {Str(d) : d \in Spellings("a.example") \cup Spellings("b.example")},
     token : 0 .. MaxGenerated, name : {Undefined}, description : {Undefined},
     version : {Undefined}]

\* The request bodies tried where the metadata matter: one node
MergeBodies ==
    [domain : {Str(<<"a.example">>)}, token : TokenInputs,
     name : {Undefined, Str("Mine")}, description : {Undefined},
     version : {Undefined, Str("2.0")}]

\* res.status(status).json({status: body, id, domain, token}) on a route
Response(route, status, body, id, domain, token) ==
    [route |-> route, status |-> status, body |-> body, id |-> id, domain |-> domain,
     token |-> token]

\* res.status(status).json({error})
Error(route, status) == Response(route, status, "error", 0, <<>>, NoToken)

\* No response is being sent
NoRes == Response("", 0, "", 0, <<>>, NoToken)

\* The handler has not answered: it is suspended in an await
Awaiting == 0

IdleReq ==
    [pc |-> "idle", cleanDomain |-> <<>>, token |-> NoToken, name |-> Undefined,
     description |-> Undefined, version |-> Undefined, node |-> {}, isHealthy |-> FALSE]

Reqs == 1 .. MaxReqs
Sweeps == 1 .. MaxSweeps

\* started: the time at which the cycle read the table
IdleSweep == [pc |-> "idle", nodes |-> <<>>, i |-> 0, started |-> 0]

\* Nothing is being sent or logged: the event loop is free to run the next
\* callback.
Quiet == res = NoRes /\ log = {}

\* The response and the log lines of the last callback are out.
Settle ==
    /\ UNCHANGED probe
    /\ ~Quiet
    /\ res' = NoRes
    /\ log' = {}
    /\ UNCHANGED <<nodes, now, generated, req, sweep>>

\* Handlers that passed the existence check and may still insert
Registering == {r \in Reqs : req[r].pc \in {"register_health", "register_info"}}

\* The columns of the row read at the top of a heartbeat that the handler
\* uses after its await
Selected(n) ==
    [id |-> n.id, name |-> n.name, description |-> n.description,
     version |-> n.version, track_count |-> n.track_count,
     user_count |-> n.user_count, open_registration |-> n.open_registration,
     p2p_node_id |-> n.p2p_node_id]

\* SELECT * FROM nodes WHERE token = ?
ByToken(token) == {n \in nodes : n.token = token}

\* SELECT * FROM nodes WHERE domain = ?
ByDomain(domain) == {n \in nodes : n.domain = domain}

\* The handler without the check that the token belongs to the domain
AnnounceStatusAnyDomain(body) ==
    IF DomainMissing(body.domain)
    THEN 400
    ELSE IF body.token # NoToken
         THEN IF ByToken(body.token) = {} THEN 401 ELSE Awaiting
         ELSE IF ByDomain(cleanDomain(body.domain[2])) # {} THEN 409 ELSE Awaiting

\* The status the handler answers with before its first await, or Awaiting
AnnounceStatus(body) ==
    IF DomainMissing(body.domain)
    THEN 400
    ELSE LET domain == cleanDomain(body.domain[2])
         IN  IF body.token # NoToken
             THEN IF ByToken(body.token) = {}
                  THEN 401
                  ELSE IF (CHOOSE n \in ByToken(body.token) : TRUE).domain # domain
                       THEN 403
                       ELSE Awaiting
             ELSE IF ByDomain(domain) # {} THEN 409 ELSE Awaiting

\* The handler up to its first await
AnnounceBegin(r, body) ==
    /\ UNCHANGED probe
    /\ Quiet
    /\ req[r].pc = "idle"
    /\ \A other \in 1 .. (r - 1) : req[other].pc # "idle"
    /\ log' = {}
    /\ UNCHANGED <<nodes, now, generated, sweep>>
    /\ IF AnnounceStatus(body) # Awaiting
       THEN /\ res' = Error("announce", AnnounceStatus(body))
            /\ UNCHANGED req
       ELSE LET started == [IdleReq EXCEPT !.cleanDomain = cleanDomain(body.domain[2]),
                                           !.token = body.token,
                                           !.name = body.name,
                                           !.description = body.description,
                                           !.version = body.version]
            IN  /\ res' = NoRes
                /\ IF body.token # NoToken
                   THEN req' = [req EXCEPT ![r] =
                            [started EXCEPT
                                !.pc = "heartbeat_info",
                                !.node = {Selected(CHOOSE n \in ByToken(body.token) : TRUE)}]]
                   ELSE /\ generated + Cardinality(Registering) < MaxGenerated
                        /\ req' = [req EXCEPT ![r] =
                              [started EXCEPT !.pc = "register_health"]]

\* The values the heartbeat UPDATE binds
HeartbeatBound(q, node, info) ==
    Bound(Or(q.name, Or(info.name, Or(node.name, Str("")))),
          Or(q.description, Or(info.description, Or(node.description, Str("")))),
          Or(q.version, Or(info.version, Or(node.version, Str("")))),
          Coalesce(info.track_count, Coalesce(node.track_count, Num(0))),
          Coalesce(info.user_count, Coalesce(node.user_count, Num(0))),
          Coalesce(info.open_registration, Coalesce(node.open_registration, Num(1))),
          OneOrZero(info.p2p_enabled),
          Or(info.p2p_node_id, Or(node.p2p_node_id, Null)))

\* The heartbeat written as a fresh row (INSERT OR REPLACE): first_seen restarts
HeartbeatUpdateReplace(n, b) ==
    [n EXCEPT !.name = b.name, !.description = b.description, !.version = b.version,
              !.track_count = b.track_count, !.user_count = b.user_count,
              !.open_registration = b.open_registration,
              !.p2p_enabled = b.p2p_enabled, !.p2p_node_id = b.p2p_node_id,
              !.first_seen = now, !.last_seen = now, !.last_healthy = now,
              !.is_online = 1, !.down_since = Null]

\* UPDATE nodes SET name = ?, ..., down_since = NULL WHERE token = ?
HeartbeatUpdate(n, b) ==
    [n EXCEPT !.name = b.name, !.description = b.description, !.version = b.version,
              !.track_count = b.track_count, !.user_count = b.user_count,
              !.open_registration = b.open_registration,
              !.p2p_enabled = b.p2p_enabled, !.p2p_node_id = b.p2p_node_id,
              !.last_seen = now, !.last_healthy = now,
              !.is_online = 1, !.down_since = Null]

\* The heartbeat from the return of fetchNodeInfo to the response
HeartbeatInfo(r, info) ==
    /\ UNCHANGED probe
    /\ Quiet
    /\ req[r].pc = "heartbeat_info"
    /\ log' = {}
    /\ req' = [req EXCEPT ![r] = IdleReq]
    /\ UNCHANGED <<now, generated, sweep>>
    /\ LET q == req[r]
           node == CHOOSE n \in q.node : TRUE
           b == HeartbeatBound(q, node, info)
       IN  IF AllBindable(b)
           THEN /\ nodes' = {IF n.token = q.token THEN HeartbeatUpdate(n, b) ELSE n :
                                n \in nodes}
                /\ res' = Response("announce", 200, "updated", node.id, q.cleanDomain, NoToken)
           ELSE /\ res' = Error("announce", 500)
                /\ UNCHANGED nodes

\* The handler that accepts a node without looking at isHealthy
RegisterStatusUnchecked(isHealthy) == Awaiting

\* if (!isHealthy) return res.status(422)
RegisterStatus(isHealthy) == IF ~isHealthy THEN 422 ELSE Awaiting

\* The registration from the return of checkNodeHealth to the next await
RegisterHealth(r, isHealthy) ==
    /\ UNCHANGED probe
    /\ Quiet
    /\ req[r].pc = "register_health"
    /\ log' = {}
    /\ UNCHANGED <<nodes, now, generated, sweep>>
    /\ IF RegisterStatus(isHealthy) # Awaiting
       THEN /\ res' = Error("announce", RegisterStatus(isHealthy))
            /\ req' = [req EXCEPT ![r] = IdleReq]
       ELSE /\ res' = NoRes
            /\ req' = [req EXCEPT ![r].pc = "register_info", ![r].isHealthy = isHealthy]

\* The values the INSERT binds
RegisterBound(q, info) ==
    Bound(Or(q.name, Or(info.name, Str(""))),
          Or(q.description, Or(info.description, Str(""))),
          Or(q.version, Or(info.version, Str(""))),
          Coalesce(info.track_count, Num(0)),
          Coalesce(info.user_count, Num(0)),
          Coalesce(info.open_registration, Num(1)),
          OneOrZero(info.p2p_enabled),
          Or(info.p2p_node_id, Null))

\* The registration from the return of fetchNodeInfo to the response
RegisterInfo(r, info) ==
    /\ UNCHANGED probe
    /\ Quiet
    /\ req[r].pc = "register_info"
    /\ log' = {}
    /\ req' = [req EXCEPT ![r] = IdleReq]
    /\ generated' = generated + 1
    /\ UNCHANGED <<now, sweep>>
    /\ LET q == req[r]
           newToken == generateToken(generated + 1)
           id == generateId(generated + 1)
           row == InsertedRow(id, q.cleanDomain, RegisterBound(q, info), newToken)
       IN  IF AllBindable(RegisterBound(q, info)) /\ ~UniqueViolation(row)
           THEN /\ nodes' = nodes \cup {row}
                /\ res' = Response("announce", 201, "registered", id, q.cleanDomain, newToken)
           ELSE /\ res' = Error("announce", 500)
                /\ UNCHANGED nodes

---------------------------------------------------------------------------
(* DELETE /api/nodes/:domain *)

\* An Authorization header is "Bearer " written `bearers` times, then a token.
Header(bearers, token) == [present |-> TRUE, bearers |-> bearers, token |-> token]

\* No Authorization header: req.headers.authorization is undefined
NoHeader == [present |-> FALSE, bearers |-> 0, token |-> NoToken]

\* req.headers.authorization?.replace("Bearer ", ""): the first occurrence goes
BearerToken(authorization) ==
    IF ~authorization.present
    THEN NoHeader
    ELSE IF authorization.bearers > 0
         THEN Header(authorization.bearers - 1, authorization.token)
         ELSE authorization

\* !token
TokenMissing(token) ==
    ~token.present \/ (token.bearers = 0 /\ token.token = NoToken)

\* The lookup by domain alone
ByDomainOnly(domain, token) == {n \in nodes : n.domain = domain}

\* SELECT * FROM nodes WHERE domain = ? AND token = ?
ByDomainAndToken(domain, token) ==
    {n \in nodes : n.domain = domain /\ token.bearers = 0 /\ n.token = token.token}

PathDomains == {d[2] : d \in {x \in DomainInputs : ~DomainMissing(x)}}
Authorizations ==
    {NoHeader, Header(1, NoToken), Header(2, 1), Header(0, 1)}
        \cup {Header(1, t) : t \in 1 .. (MaxGenerated + 1)}

\* The status DELETE answers with
DeleteStatus(domain, authorization) ==
    IF TokenMissing(BearerToken(authorization))
    THEN 401
    ELSE IF ByDomainAndToken(cleanDomain(domain), BearerToken(authorization)) = {}
         THEN 404
         ELSE 200

\* DELETE FROM nodes WHERE id = ?
DeleteWhereId(rows, id) == {n \in rows : n.id # id}

\* The table DELETE leaves
DeleteRows(domain, authorization) ==
    IF DeleteStatus(domain, authorization) = 200
    THEN LET node == CHOOSE n \in ByDomainAndToken(cleanDomain(domain),
                                                   BearerToken(authorization)) : TRUE
         IN  DeleteWhereId(nodes, node.id)
    ELSE nodes

DeleteNode(domain, authorization) ==
    /\ UNCHANGED probe
    /\ Quiet
    /\ log' = {}
    /\ UNCHANGED <<now, generated, req, sweep>>
    /\ nodes' = DeleteRows(domain, authorization)
    /\ res' = IF DeleteStatus(domain, authorization) = 200
              THEN Response("delete", 200, "removed", 0, cleanDomain(domain), NoToken)
              ELSE Error("delete", DeleteStatus(domain, authorization))

---------------------------------------------------------------------------
(* GET /api/nodes *)

\* The values of ?include_offline= tried; Undefined: the parameter is not given
Queries == {Undefined, Str("true"), Str("false"), Str("1")}

\* _req.query.include_offline === "true"
IncludeOffline(query) == query = Str("true")

\* FROM nodes [WHERE is_online = 1]
Where(rows, includeOffline) ==
    IF includeOffline THEN rows ELSE {n \in rows : n.is_online = 1}

\* The listing sorted by track_count alone
OrderedBeforeByTracks(a, b, includeOffline) ==
    IF a.track_count[2] # b.track_count[2]
    THEN a.track_count[2] > b.track_count[2]
    ELSE a.id <= b.id

\* ORDER BY is_online DESC, track_count DESC, or ORDER BY track_count DESC:
\* row a comes out before row b.  Rows that tie come out in scan order.
OrderedBefore(a, b, includeOffline) ==
    IF includeOffline /\ a.is_online # b.is_online
    THEN a.is_online > b.is_online
    ELSE IF a.track_count[2] # b.track_count[2]
         THEN a.track_count[2] > b.track_count[2]
         ELSE a.id <= b.id

RECURSIVE OrderBy(_, _)
OrderBy(rows, includeOffline) ==
    IF rows = {}
    THEN <<>>
    ELSE LET first == CHOOSE n \in rows :
                          \A m \in rows : OrderedBefore(n, m, includeOffline)
         IN  <<first>> \o OrderBy(rows \ {first}, includeOffline)

\* The columns selected (token and registered columns are not), with !! on
\* the three flags
Listing(n) ==
    [id |-> n.id, domain |-> n.domain, name |-> n.name, description |-> n.description,
     version |-> n.version, track_count |-> n.track_count, user_count |-> n.user_count,
     open_registration |-> Bool(Truthy(n.open_registration)),
     p2p_enabled |-> Bool(Truthy(n.p2p_enabled)),
     p2p_node_id |-> n.p2p_node_id, country |-> n.country,
     first_seen |-> n.first_seen, last_seen |-> n.last_seen,
     last_healthy |-> n.last_healthy,
     is_online |-> Bool(n.is_online # 0), down_since |-> n.down_since]

\* res.json({total: nodes.length, nodes: nodes.map(...)})
NodesResponse(query) ==
    LET rows == OrderBy(Where(nodes, IncludeOffline(query)), IncludeOffline(query))
    IN  [route |-> "nodes", status |-> 200, body |-> "list", id |-> 0, domain |-> <<>>,
         token |-> NoToken, total |-> Len(rows),
         nodes |-> [k \in 1 .. Len(rows) |-> Listing(rows[k])]]

GetNodes(query) ==
    /\ UNCHANGED probe
    /\ Quiet
    /\ res' = NodesResponse(query)
    /\ log' = {}
    /\ UNCHANGED <<nodes, now, generated, req, sweep>>

---------------------------------------------------------------------------
(* runHealthChecks *)

\* SELECT * FROM nodes: a table scan, in rowid order, which is the order of
\* insertion.
RECURSIVE AllNodes(_)
AllNodes(rows) ==
    IF rows = {}
    THEN <<>>
    ELSE LET first == CHOOSE n \in rows : \A m \in rows : n.id <= m.id
         IN  <<first>> \o AllNodes(rows \ {first})

\* The columns of a row that the cycle reads after its await
Snapshot(n) ==
    [id |-> n.id, domain |-> n.domain, is_online |-> n.is_online,
     down_since |-> n.down_since]

\* The rows of the cycle whose probe (checkNodeHealth or fetchNodeInfo) has
\* been started and has not returned: the loop awaits each probe before it
\* goes on to the next row.
Probing(s) == IF sweep[s].pc \in {"health", "info"} THEN {sweep[s].i} ELSE {}

\* for (const node of nodes): on to the next row, or out of the loop
Continue(s) ==
    IF sweep[s].i < Len(sweep[s].nodes)
    THEN /\ sweep' = [sweep EXCEPT ![s].pc = "health", ![s].i = sweep[s].i + 1]
         /\ UNCHANGED now
    ELSE /\ sweep' = [sweep EXCEPT ![s] = IdleSweep]
         /\ UNCHANGED now

Complete(s) == IF sweep[s].i < Len(sweep[s].nodes) THEN {} ELSE {<<"checks complete", 0>>}

\* From the timer firing to the first await
RunHealthChecks(s) ==
    /\ UNCHANGED probe
    /\ Quiet
    /\ sweep[s].pc = "idle"
    /\ \A other \in 1 .. (s - 1) : sweep[other].pc # "idle"
    /\ res' = NoRes
    /\ UNCHANGED <<nodes, now, generated, req>>
    /\ LET rows == AllNodes(nodes)
       IN  IF rows = <<>>
           THEN /\ log' = {<<"checks complete", 0>>}
                /\ UNCHANGED sweep
           ELSE /\ log' = {}
                /\ sweep' = [sweep EXCEPT ![s] =
                      [pc |-> "health", i |-> 1, started |-> now,
                       nodes |-> [k \in 1 .. Len(rows) |-> Snapshot(rows[k])]]]

\* The comparison written with > ("more than 48 hours")
DownTooLongStrict(down_since) ==
    (now - down_since[2]) > REMOVAL_THRESHOLD_HOURS * MinutesPerHour

\* (Date.now() - downSince) / (1000 * 60 * 60) >= REMOVAL_THRESHOLD_HOURS
DownTooLong(down_since) ==
    (now - down_since[2]) >= REMOVAL_THRESHOLD_HOURS * MinutesPerHour

\* The removal decided on the row as the cycle leaves it: a row without a
\* down_since read is taken at its last_seen
RemovableUnlessRecent(node) ==
    node.down_since = Null \/ DownTooLong(node.down_since)

\* if (node.down_since) { ... if (hoursDown >= REMOVAL_THRESHOLD_HOURS) ... }
Removable(node) ==
    node.down_since # Null /\ DownTooLong(node.down_since)

\* The UPDATE without down_since = datetime('now')
MarkOfflineNoStamp(rows, id) ==
    {IF n.id = id THEN [n EXCEPT !.is_online = 0] ELSE n : n \in rows}

\* UPDATE nodes SET is_online = 0, down_since = datetime('now') WHERE id = ?
MarkOffline(rows, id) ==
    {IF n.id = id THEN [n EXCEPT !.is_online = 0, !.down_since = DateTime(now)] ELSE n :
        n \in rows}

\* From the return of checkNodeHealth to the next await
SweepHealth(s, isHealthy) ==
    /\ UNCHANGED probe
    /\ Quiet
    /\ sweep[s].pc = "health"
    /\ res' = NoRes
    /\ UNCHANGED <<generated, req>>
    /\ LET node == sweep[s].nodes[sweep[s].i]
           marked == IF node.is_online = 1 THEN MarkOffline(nodes, node.id) ELSE nodes
           remove == Removable(node)
       IN  IF isHealthy
           THEN /\ sweep' = [sweep EXCEPT ![s].pc = "info"]
                /\ log' = {}
                /\ UNCHANGED <<nodes, now>>
           ELSE /\ nodes' = IF remove THEN DeleteWhereId(marked, node.id) ELSE marked
                /\ log' = (IF node.is_online = 1 THEN {<<"went offline", node.id>>} ELSE {})
                             \cup (IF remove THEN {<<"removing", node.id>>} ELSE {})
                             \cup Complete(s)
                /\ Continue(s)

\* The values the sweep UPDATE binds
SweepBound(info) ==
    [track_count |-> Coalesce(info.track_count, Null),
     user_count |-> Coalesce(info.user_count, Null),
     version |-> Or(info.version, Null),
     p2p_enabled |-> IF Nullish(info.p2p_enabled) THEN Null
                     ELSE OneOrZero(info.p2p_enabled),
     p2p_node_id |-> Or(info.p2p_node_id, Null),
     name |-> Or(info.name, Null),
     open_registration |-> Coalesce(info.open_registration, Null)]

\* UPDATE nodes SET is_online = 1, ..., track_count = COALESCE(?, track_count), ...
SweepUpdate(n, b) ==
    [n EXCEPT !.is_online = 1, !.last_healthy = now, !.last_seen = now,
              !.down_since = Null,
              !.track_count = SqlCoalesce(b.track_count, n.track_count),
              !.user_count = SqlCoalesce(b.user_count, n.user_count),
              !.version = SqlCoalesce(b.version, n.version),
              !.p2p_enabled = SqlCoalesce(b.p2p_enabled, n.p2p_enabled),
              !.p2p_node_id = SqlCoalesce(b.p2p_node_id, n.p2p_node_id),
              !.name = SqlCoalesce(b.name, n.name),
              !.open_registration = SqlCoalesce(b.open_registration, n.open_registration)]

\* From the return of fetchNodeInfo to the next await.  A TypeError thrown by
\* run() leaves the loop and the function: nothing catches it.
SweepInfo(s, info) ==
    /\ UNCHANGED probe
    /\ Quiet
    /\ sweep[s].pc = "info"
    /\ res' = NoRes
    /\ UNCHANGED <<generated, req>>
    /\ LET node == sweep[s].nodes[sweep[s].i]
           b == SweepBound(info)
       IN  IF AllBindable(b)
           THEN /\ nodes' = {IF n.id = node.id THEN SweepUpdate(n, b) ELSE n : n \in nodes}
                /\ log' = (IF node.is_online # 1 THEN {<<"back online", node.id>>} ELSE {})
                             \cup Complete(s)
                /\ Continue(s)
           ELSE /\ sweep' = [sweep EXCEPT ![s] = IdleSweep]
                /\ log' = {<<"uncaught", node.id>>}
                /\ UNCHANGED <<nodes, now>>

---------------------------------------------------------------------------
(* The clock *)

Tick(d) ==
    /\ UNCHANGED probe
    /\ Quiet
    /\ now + d <= MaxTime
    /\ now' = now + d
    /\ res' = NoRes
    /\ log' = {}
    /\ UNCHANGED <<nodes, generated, req, sweep>>

---------------------------------------------------------------------------

Init ==
    /\ nodes = {}
    /\ now = 0
    /\ generated = 0
    /\ req = [r \in Reqs |-> IdleReq]
    /\ sweep = [s \in Sweeps |-> IdleSweep]
    /\ res = NoRes
    /\ log = {}
    /\ probe = IdleProbe

Next ==
    \/ \E r \in Reqs, body \in Bodies : AnnounceBegin(r, body)
    \/ \E r \in Reqs, info \in Infos : HeartbeatInfo(r, info)
    \/ \E r \in Reqs, isHealthy \in BOOLEAN : RegisterHealth(r, isHealthy)
    \/ \E r \in Reqs, info \in Infos : RegisterInfo(r, info)
    \/ \E domain \in PathDomains, authorization \in Authorizations :
          DeleteNode(domain, authorization)
    \/ \E s \in Sweeps : RunHealthChecks(s)
    \/ \E s \in Sweeps, isHealthy \in BOOLEAN : SweepHealth(s, isHealthy)
    \/ \E s \in Sweeps, info \in Infos : SweepInfo(s, info)
    \/ \E d \in TickSteps : Tick(d)
    \/ Settle

Spec == Init /\ [][Next]_vars

\* One node, one request at a time, no sweep beside a request, the clock
\* standing still: the metadata written by registrations, heartbeats and sweeps.
Sequential == \A r \in Reqs : req[r].pc = "idle"

NextMerge ==
    \/ \E body \in MergeBodies : sweep[1].pc = "idle" /\ AnnounceBegin(1, body)
    \/ \E info \in MergeInfos : HeartbeatInfo(1, info)
    \/ \E isHealthy \in BOOLEAN : RegisterHealth(1, isHealthy)
    \/ \E info \in MergeInfos : RegisterInfo(1, info)
    \/ \E token \in 1 .. MaxGenerated :
          Sequential /\ sweep[1].pc = "idle" /\ DeleteNode(<<"a.example">>, Header(1, token))
    \/ Sequential /\ RunHealthChecks(1)
    \/ \E isHealthy \in BOOLEAN : SweepHealth(1, isHealthy)
    \/ \E info \in MergeInfos : SweepInfo(1, info)
    \/ Settle

SpecMerge == Init /\ [][NextMerge]_vars

\* The directory as GET /api/nodes finds it: up to MaxListed nodes have
\* registered, each with its own track count, and a health cycle has marked
\* some of them offline.
MaxListed == 3

ListDomains ==
    <<(<<"a.example">>), (<<"b.example">>), (<<"c.example">>), (<<"d.example">>)>>

ListedRow(k, info, online) ==
    LET row == InsertedRow(generateId(k), ListDomains[k], RegisterBound(IdleReq, info),
                           generateToken(k))
    IN  IF online THEN row ELSE CHOOSE n \in MarkOffline({row}, row.id) : TRUE

ListTables ==
    { {ListedRow(k, c[k][1], c[k][2]) : k \in ids} :
        ids \in SUBSET (1 .. MaxListed),
        c \in [1 .. MaxListed -> ListInfos \X BOOLEAN] }

InitList ==
    /\ now = 0
    /\ nodes \in ListTables
    /\ generated = MaxListed
    /\ req = [r \in Reqs |-> IdleReq]
    /\ sweep = [s \in Sweeps |-> IdleSweep]
    /\ res = NoRes
    /\ log = {}
    /\ probe = IdleProbe

NextList ==
    \/ \E query \in Queries : GetNodes(query)
    \/ Settle

SpecList == InitList /\ [][NextList]_vars

\* One probe at a time, against a remote that answers, fails, or goes silent
\* at any point.  The timers of the event loop fire; the remote owes nothing.
NextProbe ==
    \/ \E function \in ProbeFunctions, domain \in ProbeDomains : ProbeBegin(function, domain)
    \/ \E ok \in BOOLEAN : FetchResolves(ok)
    \/ FetchRejects
    \/ Abort
    \/ \E json \in JsonBodies : BodyArrives(json)
    \/ ProbeReturn

SpecProbe == Init /\ [][NextProbe]_vars /\ WF_vars(Abort) /\ WF_vars(ProbeReturn)

\* Registrations and heartbeats, one at a time, of hosts spelled in every way
NextSpelling ==
    \/ \E body \in SpellingBodies : AnnounceBegin(1, body)
    \/ HeartbeatInfo(1, NoInfo)
    \/ \E isHealthy \in BOOLEAN : RegisterHealth(1, isHealthy)
    \/ RegisterInfo(1, NoInfo)
    \/ Settle

SpecSpelling == Init /\ [][NextSpelling]_vars

\* Health cycles that outlast the timer: setInterval starts runHealthChecks
\* every HealthCheckInterval minutes whether or not the cycle before it has
\* returned, so up to MaxOverlap cycles are suspended at a time while the
\* clock moves on.
Overlapping == 1 .. MaxOverlap

InitOverlap ==
    /\ nodes = {}
    /\ now = 0
    /\ generated = 0
    /\ req = [r \in Reqs |-> IdleReq]
    /\ sweep = [s \in Overlapping |-> IdleSweep]
    /\ res = NoRes
    /\ log = {}
    /\ probe = IdleProbe

\* The timer has not fired since `started`
TimerDue(started) == started + HealthCheckInterval <= now

NextOverlap ==
    \/ \E body \in Bodies : body.token = NoToken /\ AnnounceBegin(1, body)
    \/ \E isHealthy \in BOOLEAN : RegisterHealth(1, isHealthy)
    \/ RegisterInfo(1, NoInfo)
    \/ \E s \in Overlapping :
          /\ \A other \in Overlapping :
                sweep[other].pc # "idle" => TimerDue(sweep[other].started)
          /\ RunHealthChecks(s)
    \/ \E s \in Overlapping, isHealthy \in BOOLEAN : SweepHealth(s, isHealthy)
    \/ \E s \in Overlapping : SweepInfo(s, NoInfo)
    \/ now < MaxIntervals * HealthCheckInterval /\ Tick(HealthCheckInterval)
    \/ Settle

SpecOverlap == InitOverlap /\ [][NextOverlap]_vars

---------------------------------------------------------------------------
(* Claims *)

\* The host a domain string denotes: the string without schemes and slashes
Host(d) == SelectSeq(d, LAMBDA chunk : chunk \notin Schemes \cup {"/"})

\* A value is supplied (present) when it is neither undefined nor null
Supplied(v) == ~Nullish(v)

\* requested if supplied, else fetched if present, else stored, else default
Precedence(requested, fetched, stored, default) ==
    IF Supplied(requested) THEN requested
    ELSE IF Supplied(fetched) THEN fetched
    ELSE IF Supplied(stored) THEN stored
    ELSE default

\* A flag as its INTEGER column holds it
AsColumn(v) == IF v[1] = "boolean" THEN OneOrZero(v) ELSE v

\* C1: in every reachable state every row has down_since non-null if and only
\* if is_online is 0.
C1_DownSinceIffOffline ==
    \A n \in nodes :
        /\ n.is_online \in {0, 1}
        /\ (n.down_since # Null) <=> (n.is_online = 0)

\* A sweep has just marked a row offline while a heartbeat for it is suspended.
C1_Witness ==
    \E n \in nodes :
        /\ <<"went offline", n.id>> \in log
        /\ n.is_online = 0
        /\ n.down_since = DateTime(now)
        /\ \E r \in Reqs : req[r].pc = "heartbeat_info" /\ req[r].token = n.token

\* C2: in every reachable state no two rows share a domain and no two rows
\* share a token (nor an id), also while announces for one domain overlap.
C2_DomainAndTokenUnique ==
    \A n, m \in nodes :
        n # m => n.domain # m.domain /\ n.token # m.token /\ n.id # m.id

\* An announce has just registered a domain while another token-less announce
\* for the same domain, past its existence check, is suspended.
C2_Witness ==
    /\ res.body = "registered"
    /\ \E r \in Registering : req[r].cleanDomain = res.domain
    /\ \E n \in nodes : n.domain = res.domain

\* C3: a token-less announce for a domain without a row whose health probe
\* succeeded creates exactly one row (is_online 1, down_since null) and
\* answers "registered" with its token; a token-less announce for a domain
\* that has a row answers 409 and creates nothing.
C3_RegisterOnceThenConflict ==
    /\ [](\A body \in Bodies :
             (/\ ~DomainMissing(body.domain)
              /\ body.token = NoToken
              /\ ByDomain(cleanDomain(body.domain[2])) # {})
                 => AnnounceStatus(body) = 409)
    /\ [][ /\ res'.status = 409 => nodes' = nodes
           /\ \A r \in Reqs :
                (req[r].pc = "register_info" /\ req[r].isHealthy /\ req'[r].pc = "idle")
                    => /\ res'.status = 201
                       /\ res'.body = "registered"
                       /\ res'.token # NoToken
                       /\ \E n \in nodes' :
                             /\ nodes' = nodes \cup {n}
                             /\ n \notin nodes
                             /\ n.domain = req[r].cleanDomain
                             /\ n.token = res'.token
                             /\ n.is_online = 1
                             /\ n.down_since = Null
        ]_vars

\* C4: a token-less announce whose health probe returns false answers 422 and
\* leaves the table unchanged; every row that appears was inserted by a handler
\* whose health probe returned true.
C4_UnreachableNotAccepted ==
    [][ /\ RegisterStatus(FALSE) = 422
        /\ res'.status = 422 => nodes' = nodes /\ generated' = generated
        /\ \A r \in Reqs :
             (req[r].pc = "register_health" /\ req'[r].pc = "idle")
                 => res' = Error("announce", 422)
        /\ \A n \in nodes' :
             (\A m \in nodes : m.id # n.id)
                 => \E r \in Reqs :
                       /\ req[r].pc = "register_info"
                       /\ req[r].isHealthy
                       /\ req[r].cleanDomain = n.domain
                       /\ req'[r].pc = "idle"
      ]_vars

\* An announce has just been refused with 422 while the table holds a row.
C4_Witness == res = Error("announce", 422) /\ nodes # {}

\* C5: an announce with a token that matches no row answers 401; an announce
\* with a registered token and a domain whose normalized form differs from the
\* row's domain answers 403; neither changes the table.
C5_HeartbeatAuth ==
    /\ [](\A body \in Bodies :
             (~DomainMissing(body.domain) /\ body.token # NoToken)
                 => /\ (\A n \in nodes : n.token # body.token)
                          => AnnounceStatus(body) = 401
                    /\ (\E n \in nodes : /\ n.token = body.token
                                          /\ n.domain # cleanDomain(body.domain[2]))
                          => AnnounceStatus(body) = 403)
    /\ [][ (res'.route = "announce" /\ res'.status \in {401, 403})
               => nodes' = nodes /\ req' = req
        ]_vars

\* A heartbeat has just been refused with 403 while two rows exist.
C5_Witness == res = Error("announce", 403) /\ Cardinality(nodes) = 2

\* C6: for as long as a row exists, no step changes its id, domain, token or
\* first_seen (nor country, which nothing writes).
C6_IdentityImmutable ==
    [][ \A n \in nodes : \A m \in nodes' :
            n.id = m.id
                => /\ m.domain = n.domain
                   /\ m.token = n.token
                   /\ m.first_seen = n.first_seen
                   /\ m.country = n.country
      ]_vars

\* A heartbeat has just updated a row created at an earlier time.
C6_Witness ==
    /\ res.body = "updated"
    /\ \E n \in nodes : n.id = res.id /\ n.first_seen < now /\ n.last_seen = now

C8_EvictedByNextSweep ==
    [][ \A s \in Sweeps :
          /\ (sweep[s].pc = "health" /\ sweep'[s] # sweep[s] /\ sweep'[s].pc # "info")
                => LET node == sweep[s].nodes[sweep[s].i]
                   IN  node.is_online = 1
                          => \A n \in nodes' :
                                n.id = node.id
                                    => n.is_online = 0 /\ n.down_since = DateTime(now)
          /\ (sweep[s].pc # "idle" /\ sweep'[s].pc = "idle")
                => \A k \in 1 .. Len(sweep[s].nodes) :
                      LET node == sweep[s].nodes[k]
                      IN  (/\ ~(k = sweep[s].i /\ sweep[s].pc = "info")
                           /\ node.is_online = 0
                           /\ node.down_since # Null
                           /\ sweep[s].started - node.down_since[2] >= 48 * 60)
                              => ~ \E n \in nodes' :
                                      /\ n.id = node.id
                                      /\ n.is_online = 0
                                      /\ n.down_since = node.down_since
      ]_vars

\* C9: DELETE answers 401 without a token and 404 when no row has both the
\* normalized path domain and the bearer token, changing nothing; otherwise it
\* removes exactly that row.  No row is removed whose token is not presented.
C9_DeleteAuth ==
    /\ [](\A domain \in PathDomains, authorization \in Authorizations :
             LET matching == {n \in nodes : /\ n.domain = cleanDomain(domain)
                                            /\ n.token = authorization.token}
                 wellFormed == ~authorization.present \/ authorization.bearers = 1
                 missing == ~authorization.present \/ authorization.token = NoToken
             IN  /\ DeleteRows(domain, authorization) \subseteq nodes
                 /\ \A n \in nodes \ DeleteRows(domain, authorization) :
                       n.token = authorization.token /\ n.domain = cleanDomain(domain)
                 /\ (wellFormed /\ missing)
                       => /\ DeleteStatus(domain, authorization) = 401
                          /\ DeleteRows(domain, authorization) = nodes
                 /\ (wellFormed /\ ~missing /\ matching = {})
                       => /\ DeleteStatus(domain, authorization) = 404
                          /\ DeleteRows(domain, authorization) = nodes
                 /\ (wellFormed /\ ~missing /\ matching # {})
                       => /\ DeleteStatus(domain, authorization) = 200
                          /\ DeleteRows(domain, authorization) = nodes \ matching
                          /\ Cardinality(matching) = 1)
    /\ [][ res'.route = "delete"
               => /\ res'.status \in {401, 404} => nodes' = nodes
                  /\ res'.status = 200
                       => \E n \in nodes : n.domain = res'.domain /\ nodes' = nodes \ {n}
        ]_vars

\* A DELETE has just removed one row and left the other node's row.
C9_Witness ==
    /\ res.route = "delete"
    /\ res.body = "removed"
    /\ \E n \in nodes : n.domain # res.domain

\* C10: a successful heartbeat writes every metadata column as the request
\* value if supplied, else the fetched value if present, else the stored value,
\* else the default; with no fetched info, every column the request does not
\* supply keeps its stored value.
C10_HeartbeatMerge ==
    \A r \in Reqs :
        req[r].pc = "heartbeat_info"
            => \A info \in MergeInfos : \A n \in ByToken(req[r].token) :
                  LET q == req[r]
                      b == HeartbeatBound(q, CHOOSE x \in q.node : TRUE, info)
                      m == HeartbeatUpdate(n, b)
                      none == Undefined
                  IN  AllBindable(b)
                         => /\ m.name = Precedence(q.name, info.name, n.name, Str(""))
                            /\ m.description =
                                  Precedence(q.description, info.description,
                                             n.description, Str(""))
                            /\ m.version =
                                  Precedence(q.version, info.version, n.version, Str(""))
                            /\ m.track_count =
                                  Precedence(none, info.track_count, n.track_count, Num(0))
                            /\ m.user_count =
                                  Precedence(none, info.user_count, n.user_count, Num(0))
                            /\ m.open_registration =
                                  Precedence(none, info.open_registration,
                                             n.open_registration, Num(1))
                            /\ m.p2p_enabled =
                                  AsColumn(Precedence(none, info.p2p_enabled,
                                                      n.p2p_enabled, Num(0)))
                            /\ m.p2p_node_id =
                                  Precedence(none, info.p2p_node_id, n.p2p_node_id, Null)
                            /\ ~info.present
                                  => \A f \in InfoFields :
                                        f \in {"name", "description", "version"}
                                            \/ m[f] = n[f]

\* C11: GET /api/nodes?include_offline=true lists every row, the online rows
\* before the offline ones and each group by descending track_count; without
\* include_offline it lists exactly the rows with is_online 1, by descending
\* track_count; total is the number of nodes listed.
C11_ListingOrder ==
    /\ res.route = "nodes" => \E query \in Queries : res = NodesResponse(query)
    /\ \A query \in {Undefined, Str("true")} :
          LET out == NodesResponse(query)
              expected == IF query = Str("true") THEN nodes
                          ELSE {n \in nodes : n.is_online = 1}
          IN  /\ out.total = Len(out.nodes)
              /\ out.total = Cardinality(expected)
              /\ {x.id : x \in {out.nodes[k] : k \in 1 .. Len(out.nodes)}}
                    = {n.id : n \in expected}
              /\ \A k \in 1 .. Len(out.nodes) : \E n \in expected :
                    /\ n.id = out.nodes[k].id
                    /\ n.domain = out.nodes[k].domain
                    /\ n.track_count = out.nodes[k].track_count
                    /\ out.nodes[k].is_online = Bool(n.is_online = 1)
              /\ \A i, j \in 1 .. Len(out.nodes) :
                    i < j
                       => LET a == out.nodes[i]
                              b == out.nodes[j]
                          IN  /\ a.is_online[2] \/ ~b.is_online[2]
                              /\ a.is_online = b.is_online
                                    => a.track_count[2] >= b.track_count[2]

\* The listing with include_offline=true has just been sent for three rows, an
\* offline row with more tracks than an online one among them.
C11_Witness ==
    /\ res = NodesResponse(Str("true"))
    /\ res.total = 3
    /\ \E i, j \in 1 .. 3 :
          /\ i < j
          /\ res.nodes[i].is_online = Bool(TRUE)
          /\ res.nodes[j].is_online = Bool(FALSE)
          /\ res.nodes[i].track_count[2] < res.nodes[j].track_count[2]

\* C12: a health cycle never deletes a row that it read as online: whatever the
\* probe returns, the step that processes the row leaves a row with that id in
\* the table if there was one.
C12_NoEvictionOnTransition ==
    [][ \A s \in Sweeps :
            (sweep[s].pc \in {"health", "info"} /\ sweep'[s] # sweep[s])
                => LET node == sweep[s].nodes[sweep[s].i]
                   IN  node.is_online = 1
                          => \A n \in nodes : n.id = node.id
                                => \E m \in nodes' : m.id = n.id
      ]_vars

\* A cycle has just marked offline a row that registered 48 hours ago, and
\* the row is still stored.
C12_Witness ==
    \E n \in nodes :
        /\ <<"went offline", n.id>> \in log
        /\ n.is_online = 0
        /\ n.down_since = DateTime(now)
        /\ now - n.first_seen >= 48 * 60

\* C13: every health cycle processes every row it read at its start: a cycle
\* ends only after its last row, whatever the probes returned and whatever
\* the store did with a node's fetched info.
C13_SweepIsolation ==
    [][ \A s \in Sweeps :
            (sweep[s].pc # "idle" /\ sweep'[s].pc = "idle")
                => sweep[s].i = Len(sweep[s].nodes)
      ]_vars

\* C14: a token-less announce that passed the existence check and, when it
\* comes to insert, finds that an overlapping announce has registered its
\* domain, answers 409; of the announces for one domain only one is answered
\* "registered".
C14_OverlapConflict ==
    [][ \A r \in Reqs :
            (/\ req[r].pc = "register_info"
             /\ req'[r].pc = "idle"
             /\ ByDomain(req[r].cleanDomain) # {})
                => res'.status = 409 /\ nodes' = nodes
      ]_vars

\* C15: when the health probe of a cycle succeeded, the row is written with
\* is_online 1, down_since null and last_healthy = last_seen = now, and every
\* metadata column takes the fetched value if the info has it and keeps its
\* stored value otherwise; with no info fetched no metadata column changes.
C15_SweepMerge ==
    \A s \in Sweeps :
        sweep[s].pc = "info"
            => \A info \in MergeInfos : \A n \in nodes :
                  LET b == SweepBound(info)
                      m == SweepUpdate(n, b)
                  IN  (n.id = sweep[s].nodes[sweep[s].i].id /\ AllBindable(b))
                         => /\ m.is_online = 1
                            /\ m.down_since = Null
                            /\ m.last_healthy = now
                            /\ m.last_seen = now
                            /\ \A f \in InfoFields :
                                  m[f] = IF Supplied(info[f]) THEN AsColumn(info[f])
                                         ELSE n[f]
                            /\ ~info.present => \A f \in InfoFields : m[f] = n[f]

\* C16: a heartbeat whose fetchNodeInfo returned null (no probe of the node
\* was answered) leaves last_healthy of the row as it was.
C16_LastHealthyConfirmed ==
    \A r \in Reqs :
        req[r].pc = "heartbeat_info"
            => \A n \in ByToken(req[r].token) :
                  LET q == req[r]
                      b == HeartbeatBound(q, CHOOSE x \in q.node : TRUE, NoInfo)
                  IN  AllBindable(b) => HeartbeatUpdate(n, b).last_healthy = n.last_healthy

\* C17: in a cycle over two or more rows the probe of the second row is
\* started without waiting for the probe of the first: while the first row is
\* being probed, the second is being probed too.
C17_ConcurrentProbes ==
    \A s \in Sweeps :
        (1 \in Probing(s) /\ Len(sweep[s].nodes) >= 2) => 2 \in Probing(s)

\* C18: a probe makes at most two attempts, and every probe that has started
\* returns a result, also against a remote that stops responding at any point
\* of an attempt.
C18_ProbeTerminates ==
    /\ [](Len(probe.attempts) <= 2)
    /\ (probe.pc \in {"fetch", "body"}) ~> (probe.pc = "done")

\* C19: the domain of every row has no leading http:// or https:// and no
\* trailing slash, and no two rows have domains that denote the same host.
C19_DomainNormalized ==
    /\ \A n \in nodes :
          /\ n.domain # <<>>
          /\ n.domain[1] \notin Schemes
          /\ n.domain[Len(n.domain)] # "/"
    /\ \A n, m \in nodes : Host(n.domain) = Host(m.domain) => n = m

\* C20: whenever a health cycle deletes a row, the row as stored at that moment
\* is offline with a down_since of 48 hours or more ago; a row that a heartbeat
\* has set back online since the cycle read it is not deleted.  (Cycles that
\* take less than a minute are looked at.)
C20_EvictOnlyStoredOffline ==
    [][ \A s \in Sweeps :
            (sweep[s].pc = "health" /\ sweep'[s] # sweep[s] /\ sweep[s].started = now)
                => \A n \in nodes :
                      (n.id = sweep[s].nodes[sweep[s].i].id
                         /\ \A m \in nodes' : m.id # n.id)
                          => /\ n.is_online = 0
                             /\ n.down_since # Null
                             /\ now - n.down_since[2] >= 48 * 60
      ]_vars

\* C21: down_since is written only by a step that takes the stored row from
\* online to offline: a row that is stored offline before and after a step
\* has the same down_since after it, also while health cycles overlap.
C21_DownSinceStable ==
    [][ \A n \in nodes : \A m \in nodes' :
            (n.id = m.id /\ n.is_online = 0 /\ m.is_online = 0)
                => m.down_since = n.down_since
      ]_vars

\* C22: whenever a heartbeat is answered "updated", a row with the id answered
\* is stored at that moment, online and with down_since null, also when the
\* row was deleted or evicted while the heartbeat was suspended.
C22_UpdatedRowExists ==
    [][ (res'.route = "announce" /\ res'.body = "updated")
            => \E n \in nodes' :
                  /\ n.id = res'.id
                  /\ n.domain = res'.domain
                  /\ n.is_online = 1
                  /\ n.down_since = Null
      ]_vars

====
